---- MODULE Spec2Model ----
(***************************************************************************)
(* RestZenStore (src/zenml/zen_stores/rest_zen_store.py): the cached       *)
(* session and token, the response translator _handle_response and the     *)
(* request dispatch _request with its retry on AuthorizationException.     *)
(*                                                                         *)
(* Every caller (thread) runs _request as a sequence of steps, one per     *)
(* access to the store's shared fields _api_token and _session, so that    *)
(* the interleavings of two callers on one store instance are the ones     *)
(* the interpreter can produce.                                            *)
(***************************************************************************)
EXTENDS Integers, Sequences, FiniteSets, TLC

VARIABLES
    _api_token,  \* RestZenStore._api_token: None or the cached token
    _session,    \* RestZenStore._session: None or a reference to a Session object
    headers,     \* the Authorization header of every Session object (None: not set)
    issued,      \* number of tokens the login endpoint has handed out
    pc,          \* per caller: the place in _request / session / _get_auth_token
    attempt,     \* per caller: 1 in the try block, 2 in the except block
    req,         \* per caller: the (method, url, kwargs) of the running _request
    sess,        \* per caller: the Session object the session property returned
    tok,         \* per caller: the token _get_auth_token returned
    log,         \* per caller: the HTTP calls of the running _request, in order
    result,      \* per caller: what the last _request returned or raised
    ndispatch,   \* per caller: number of _request calls started
    entry,       \* per caller: the store's fields when the running _request began
    history,     \* the HTTP calls made since construction: login requests, 401 answers
    arg,         \* the argument of the function under study (a response, a url)
    ret,         \* what the function under study returned or raised for arg
    _stream_handler,  \* FileLogCollector._stream_handler: None or a handler
    _file_obj,   \* FileLogCollector._file_obj: None or a file object
    loggers,     \* per step name: the handlers of the logger of that name
    files,       \* per file object: "unopened", "open" or "closed"
    calls        \* the calls made on the collector, in order

\* The store and its callers.
storeVars == <<_api_token, _session, headers, issued, pc, attempt, req, sess,
               tok, log, result, ndispatch, entry, history>>

\* The call of a function that uses no store state.
pure == <<arg, ret>>

\* A FileLogCollector, the loggers and the files it works on.
collectorVars == <<_stream_handler, _file_obj, loggers, files, calls>>

vars == <<storeVars, pure, collectorVars>>

----------------------------------------------------------------------------
(* Bounds of the model. *)

MaxDispatch == 2    \* _request calls per caller
MaxSessions == 2    \* Session objects alive at the same time
MaxTokens == 3      \* tokens the login endpoint hands out

MaxCollectorCalls == 4    \* calls on one FileLogCollector

Callers == {1, 2}
SingleCaller == {1}

None == "None"

SessionObjs == {"session" \o ToString(i) : i \in 1..MaxSessions}

\* Step names, and the file objects and handlers add_custom_handler makes:
\* the n-th call opens FileOf(n) and makes HandlerOf(n), which writes to it.
Steps == {"A", "B"}
FileOf(n) == "file" \o ToString(n)
HandlerOf(n) == "handler" \o ToString(n)
FileObjs == {FileOf(n) : n \in 1..MaxCollectorCalls}
TokenOf(n) == "token" \o ToString(n)

----------------------------------------------------------------------------
(* Responses.  A body is given by its format (a JSON object, another JSON  *)
(* value, or text that is not JSON), the words its text is made of, and    *)
(* whether these words are the items of a "detail" list.                   *)

Body(fmt, hasDetail, items, token) ==
    [fmt |-> fmt, hasDetail |-> hasDetail, items |-> items, token |-> token]

NoBody == Body("none", FALSE, <<>>, None)

RECURSIVE Join(_, _)
Join(items, sep) ==
    IF items = <<>> THEN ""
    ELSE IF Len(items) = 1 THEN items[1]
    ELSE items[1] \o sep \o Join(Tail(items), sep)

\* response.text
Text(body) ==
    CASE body.fmt = "dict" /\ body.hasDetail ->
            "{detail:[" \o Join(body.items, ",") \o "]}"
      [] body.fmt = "dict" /\ body.token # None ->
            "{token:" \o body.token \o "}"
      [] body.fmt = "dict" -> "{" \o Join(body.items, ",") \o "}"
      [] body.fmt = "other" -> "[" \o Join(body.items, ",") \o "]"
      [] OTHER -> Join(body.items, " ")

\* marker in response.text
InText(marker, body) == \E i \in DOMAIN body.items : body.items[i] = marker

Returned(payload) ==
    [kind |-> "ok", payload |-> payload, code |-> 0, args |-> <<>>]

Raised(kind, code, args) ==
    [kind |-> kind, payload |-> NoBody, code |-> code, args |-> args]

NoResult == [kind |-> "none", payload |-> NoBody, code |-> 0, args |-> <<>>]

IsError(res) == res.kind \notin {"ok", "none"}

\* response.json().get("detail", (response.text,)), then Exc(*detail)
RaiseWithDetail(kind, body) ==
    CASE body.fmt = "raw" -> Raised("JSONDecodeError", 0, <<Text(body)>>)
      [] body.fmt = "other" -> Raised("AttributeError", 0, <<"get">>)
      [] body.hasDetail -> Raised(kind, 0, body.items)
      [] OTHER -> Raised(kind, 0, <<Text(body)>>)

\* IsSuccess with only 200 taken for a success.
IsSuccessOnly200(status) == status = 200

\* line 237: response.status_code >= 200 and response.status_code < 300
IsSuccess(status) == status >= 200 /\ status < 300

HandleResponse(response) ==
    LET status == response.status
        body == response.body
    IN  CASE IsSuccess(status) ->
                IF body.fmt = "raw"
                THEN Raised("ValueError", 0, <<"Bad response from API", Text(body)>>)
                ELSE Returned(body)
          [] status = 401 ->
                CASE body.fmt = "raw" -> Raised("JSONDecodeError", 0, <<Text(body)>>)
                  [] body.fmt = "other" -> Raised("AttributeError", 0, <<"get">>)
                  [] OTHER ->
                        Raised("AuthorizationException", status,
                               <<response.url>> \o
                               (IF body.hasDetail THEN body.items ELSE <<None>>))
          [] status = 404 ->
                IF ~InText("DoesNotExistException", body)
                THEN RaiseWithDetail("KeyError", body)
                ELSE LET e == RaiseWithDetail("DoesNotExistException", body)
                     IN  IF e.kind = "DoesNotExistException"
                         THEN Raised(e.kind, 0, <<Join(e.args, ": ")>>)
                         ELSE e
          [] status = 409 ->
                IF InText("StackComponentExistsError", body)
                THEN RaiseWithDetail("StackComponentExistsError", body)
                ELSE IF InText("StackExistsError", body)
                THEN RaiseWithDetail("StackExistsError", body)
                ELSE IF InText("EntityExistsError", body)
                THEN RaiseWithDetail("EntityExistsError", body)
                ELSE RaiseWithDetail("ValueError", body)
          [] status = 422 -> RaiseWithDetail("RuntimeError", body)
          [] status = 500 -> Raised("KeyError", 0, <<Text(body)>>)
          [] OTHER ->
                Raised("RuntimeError", status,
                       <<"Error retrieving from API", Text(body)>>)

----------------------------------------------------------------------------
(* The transport: what one HTTP call comes back with.  A call either gets  *)
(* a response (status, body) or the transport raises (a timeout).          *)

Answer(status, body) == [timeout |-> FALSE, status |-> status, body |-> body]
TimedOut == [timeout |-> TRUE, status |-> 0, body |-> NoBody]

\* self._handle_response(<call>) for a call that came back with outcome o
Handled(o, url) ==
    IF o.timeout THEN Raised("Timeout", 0, <<url>>)
    ELSE HandleResponse([status |-> o.status, body |-> o.body, url |-> url])

Detail(items) == Body("dict", TRUE, items, None)

\* What the server may answer to an entity request.
EntityAnswers ==
    { Answer(200, Body("dict", FALSE, <<"stack">>, None)),
      Answer(200, Body("raw", FALSE, <<"<html>">>, None)),
      Answer(401, Detail(<<"Not authenticated">>)),
      Answer(401, Body("raw", FALSE, <<"<html>">>, None)),
      Answer(404, Detail(<<"KeyError", "stack missing">>)),
      Answer(409, Detail(<<"StackExistsError", "stack exists">>)),
      Answer(422, Detail(<<"field required">>)),
      Answer(500, Body("raw", FALSE, <<"Internal Server Error">>, None)),
      Answer(418, Body("raw", FALSE, <<"teapot">>, None)),
      TimedOut }

\* The reduced answers used with two callers.
EntityAnswersConc ==
    { Answer(200, Body("dict", FALSE, <<"stack">>, None)),
      Answer(401, Detail(<<"Not authenticated">>)) }

LoginAccepted(t) == Answer(200, Body("dict", FALSE, <<>>, t))
LoginRejected == Answer(401, Detail(<<"Incorrect username or password">>))

\* What the login endpoint does with a login request, and the answer that
\* makes; t is the token a successful login gets.
LoginAnswer(outcome, t) ==
    CASE outcome = "accept" -> LoginAccepted(t)
      [] outcome = "reject" -> LoginRejected
      [] outcome = "fault" ->
            Answer(500, Body("raw", FALSE, <<"Internal Server Error">>, None))
      [] OTHER -> TimedOut

LoginOutcomes == {"accept", "reject", "fault", "timeout"}

\* A server that accepts every login.
LoginOutcomesAccept == {"accept"}

----------------------------------------------------------------------------
(* Requests: get, delete, post, put build the arguments of _request.       *)

StoreUrl == "http://host"
LOGIN == "/login"
NoData == "None"

Request(method, url, data) == [method |-> method, url |-> url, data |-> data]

get(path) == Request("GET", StoreUrl \o path, NoData)
delete(path) == Request("DELETE", StoreUrl \o path, NoData)
post(path, body) == Request("POST", StoreUrl \o path, body)
put(path, body) == Request("PUT", StoreUrl \o path, body)

LoginRequest == Request("POST", StoreUrl \o LOGIN, "username,password")

Requests ==
    { get("/stacks"), delete("/stacks/1"),
      post("/stacks", "stack.json"), put("/stacks/1", "stack.json") }

RequestsConc == { get("/stacks") }

NoRequest == Request("none", "", NoData)

Call(ev, r, auth, o) == [ev |-> ev, req |-> r, auth |-> auth, answer |-> o]

----------------------------------------------------------------------------
\* The store's cached fields: the token, the session and the session's header.
Fields(token, session, header) ==
    [token |-> token, session |-> session, header |-> header]

StoreFields ==
    Fields(_api_token, _session,
           IF _session = None THEN None ELSE headers[_session])

----------------------------------------------------------------------------
(* The state after construction (class attributes, lines 87-88; the        *)
(* effective _initialize is the second definition, which does nothing).    *)

\* A new FileLogCollector (class attributes, file_log_collector.py lines
\* 27-30); no logger has a handler and no file is open.
CollectorInit ==
    /\ _stream_handler = None
    /\ _file_obj = None
    /\ loggers = [s \in Steps |-> {}]
    /\ files = [f \in FileObjs |-> "unopened"]
    /\ calls = <<>>

StoreInit ==
    /\ CollectorInit
    /\ _api_token = None
    /\ _session = None
    /\ headers = [s \in SessionObjs |-> None]
    /\ issued = 0
    /\ pc = [c \in Callers |-> "idle"]
    /\ attempt = [c \in Callers |-> 1]
    /\ req = [c \in Callers |-> NoRequest]
    /\ sess = [c \in Callers |-> None]
    /\ tok = [c \in Callers |-> None]
    /\ log = [c \in Callers |-> <<>>]
    /\ result = [c \in Callers |-> NoResult]
    /\ ndispatch = [c \in Callers |-> 0]
    /\ entry = [c \in Callers |-> Fields(None, None, None)]
    /\ history = [logins |-> 0, unauthorized |-> FALSE]

Init == StoreInit /\ arg = None /\ ret = None

Goto(c, label) == pc' = [pc EXCEPT ![c] = label]

\* The history after one more HTTP call that came back with outcome o;
\* n is 1 for a login request and 0 for an entity request.
Recorded(o, n) ==
    [logins |-> history.logins + n,
     unauthorized |-> history.unauthorized \/ (~o.timeout /\ o.status = 401)]

\* Raise with the retry not bounded: the except clause is entered again.
RaiseRetriesAgain(c, e) ==
    IF e.kind = "AuthorizationException"
    THEN Goto(c, "invalidate") /\ UNCHANGED result
    ELSE Goto(c, "done") /\ result' = [result EXCEPT ![c] = e]

\* Raise with a bare except clause: every exception of the try block is retried.
RaiseRetriesAnyError(c, e) ==
    IF attempt[c] = 1
    THEN Goto(c, "invalidate") /\ UNCHANGED result
    ELSE Goto(c, "done") /\ result' = [result EXCEPT ![c] = e]

\* Raise with the transport's timeout handled like a 401: the request is
\* re-issued after a timeout.
RaiseRetriesTimeout(c, e) ==
    IF e.kind \in {"AuthorizationException", "Timeout"} /\ attempt[c] = 1
    THEN Goto(c, "invalidate") /\ UNCHANGED result
    ELSE Goto(c, "done") /\ result' = [result EXCEPT ![c] = e]

\* An exception e leaves the session property or _handle_response inside
\* _request: the except clause takes an AuthorizationException raised in the
\* try block; everything else, and everything raised in the except block,
\* propagates to the caller.
Raise(c, e) ==
    IF e.kind = "AuthorizationException" /\ attempt[c] = 1
    THEN Goto(c, "invalidate") /\ UNCHANGED result
    ELSE Goto(c, "done") /\ result' = [result EXCEPT ![c] = e]

\* Return with the except block's return statement missing: the retried call's
\* value is dropped and the caller gets None.
ReturnDropsRetried(c, res) ==
    /\ Goto(c, "done")
    /\ result' = [result EXCEPT
                    ![c] = IF attempt[c] = 2 THEN Returned(NoBody) ELSE res]

\* _request, lines 291 and 298: return self._handle_response(...)
Return(c, res) ==
    Goto(c, "done") /\ result' = [result EXCEPT ![c] = res]

\* get / delete / post / put: a caller starts _request(method, url, **kwargs)
Dispatch(c, Q) ==
    /\ pc[c] \in {"idle", "done"}
    /\ ndispatch[c] < MaxDispatch
    /\ \E q \in Q : req' = [req EXCEPT ![c] = q]
    /\ ndispatch' = [ndispatch EXCEPT ![c] = @ + 1]
    /\ attempt' = [attempt EXCEPT ![c] = 1]
    /\ log' = [log EXCEPT ![c] = <<>>]
    /\ result' = [result EXCEPT ![c] = NoResult]
    /\ entry' = [entry EXCEPT ![c] = StoreFields]
    /\ Goto(c, "session_check")
    /\ UNCHANGED <<_api_token, _session, headers, issued, sess, tok, history,
                   pure, collectorVars>>

\* The session property with no cache: a new session for every request.
SessionCheckNoCache(c) ==
    /\ pc[c] = "session_check"
    /\ Goto(c, "session_new")
    /\ UNCHANGED <<_api_token, _session, headers, issued, attempt, req, sess,
                   tok, log, result, ndispatch, entry, history, pure, collectorVars>>

\* session, line 203: if self._session is None
SessionCheck(c) ==
    /\ pc[c] = "session_check"
    /\ IF _session = None THEN Goto(c, "session_new")
                          ELSE Goto(c, "session_return")
    /\ UNCHANGED <<_api_token, _session, headers, issued, attempt, req, sess,
                   tok, log, result, ndispatch, entry, history, pure, collectorVars>>

\* The Session objects something still refers to.
Referenced == {_session} \cup {sess[c] : c \in Callers}

\* session, line 204: self._session = requests.Session()
SessionNew(c) ==
    /\ pc[c] = "session_new"
    /\ SessionObjs \ Referenced # {}
    /\ LET s == CHOOSE s2 \in SessionObjs : s2 \notin Referenced
       IN  /\ _session' = s
           /\ headers' = [headers EXCEPT ![s] = None]
    /\ Goto(c, "token_check")
    /\ UNCHANGED <<_api_token, issued, attempt, req, sess, tok, log, result,
                   ndispatch, entry, history, pure, collectorVars>>

\* _get_auth_token, line 188: if self._api_token is None
TokenCheck(c) ==
    /\ pc[c] = "token_check"
    /\ IF _api_token = None THEN Goto(c, "login") ELSE Goto(c, "token_return")
    /\ UNCHANGED <<_api_token, _session, headers, issued, attempt, req, sess,
                   tok, log, result, ndispatch, entry, history, pure, collectorVars>>

\* payload["token"] of what _handle_response returned for the login call
TokenField(res) ==
    IF res.kind # "ok" THEN res
    ELSE IF res.payload.fmt # "dict" THEN Raised("TypeError", 0, <<"token">>)
    ELSE IF res.payload.token = None THEN Raised("KeyError", 0, <<"token">>)
    ELSE res

\* _get_auth_token, lines 189-197: the login call, and the assignment of
\* the token it returned
Login(c, LO) ==
    /\ pc[c] = "login"
    /\ issued < MaxTokens
    /\ \E outcome \in LO :
        LET o == LoginAnswer(outcome, TokenOf(issued + 1))
            res == TokenField(Handled(o, LoginRequest.url))
        IN  /\ log' = [log EXCEPT
                        ![c] = Append(@, Call("login", LoginRequest, None, o))]
            /\ history' = Recorded(o, 1)
            /\ IF res.kind = "ok"
               THEN /\ _api_token' = res.payload.token
                    /\ issued' = issued + 1
                    /\ Goto(c, "token_return")
                    /\ UNCHANGED result
               ELSE /\ Raise(c, res)
                    /\ UNCHANGED <<_api_token, issued>>
    /\ UNCHANGED <<_session, headers, attempt, req, sess, tok, ndispatch, entry,
                   pure, collectorVars>>

\* _get_auth_token, line 198: return self._api_token
TokenReturn(c) ==
    /\ pc[c] = "token_return"
    /\ tok' = [tok EXCEPT ![c] = _api_token]
    /\ Goto(c, "header_update")
    /\ UNCHANGED <<_api_token, _session, headers, issued, attempt, req, sess,
                   log, result, ndispatch, entry, history, pure, collectorVars>>

\* session, line 206: self._session.headers.update({"Authorization": ...})
HeaderUpdate(c) ==
    /\ pc[c] = "header_update"
    /\ IF _session = None
       THEN /\ Raise(c, Raised("AttributeError", 0, <<"headers">>))
            /\ UNCHANGED headers
       ELSE /\ headers' = [headers EXCEPT ![_session] = "Bearer " \o tok[c]]
            /\ Goto(c, "session_return")
            /\ UNCHANGED result
    /\ tok' = [tok EXCEPT ![c] = None]
    /\ UNCHANGED <<_api_token, _session, issued, attempt, req, sess, log,
                   ndispatch, entry, history, pure, collectorVars>>

\* session, line 208: return self._session
SessionReturn(c) ==
    /\ pc[c] = "session_return"
    /\ sess' = [sess EXCEPT ![c] = _session]
    /\ Goto(c, "send")
    /\ UNCHANGED <<_api_token, _session, headers, issued, attempt, req, tok,
                   log, result, ndispatch, entry, history, pure, collectorVars>>

\* The re-issued request with the keyword arguments left out.
RequestArgsDropKwargs(c) ==
    IF attempt[c] = 2 THEN [req[c] EXCEPT !.data = NoData] ELSE req[c]

\* _request, lines 292 and 299: the arguments (method, url, **kwargs) of
\* <session>.request, the ones _request was called with
RequestArgs(c) == req[c]

\* _request, lines 291-293 and 298-300:
\* self._handle_response(<session>.request(method, url, **kwargs))
Send(c, EA) ==
    /\ pc[c] = "send"
    /\ IF sess[c] = None
       THEN /\ Raise(c, Raised("AttributeError", 0, <<"request">>))
            /\ UNCHANGED <<log, history>>
       ELSE \E o \in EA :
            LET q == RequestArgs(c)
                res == Handled(o, q.url)
            IN  /\ log' = [log EXCEPT
                    ![c] = Append(@, Call("entity", q, headers[sess[c]], o))]
                /\ history' = Recorded(o, 0)
                /\ IF res.kind = "ok"
                   THEN Return(c, res)
                   ELSE Raise(c, res)
    /\ sess' = [sess EXCEPT ![c] = None]
    /\ UNCHANGED <<_api_token, _session, headers, issued, attempt, req, tok,
                   ndispatch, entry, pure, collectorVars>>

\* _request, line 297: self._session = None
Invalidate(c) ==
    /\ pc[c] = "invalidate"
    /\ _session' = None
    /\ attempt' = [attempt EXCEPT ![c] = 2]
    /\ Goto(c, "session_check")
    /\ UNCHANGED <<_api_token, headers, issued, req, sess, tok, log, result,
                   ndispatch, entry, history, pure, collectorVars>>

Step(c, Q, LO, EA) ==
    \/ Dispatch(c, Q)
    \/ SessionCheck(c)
    \/ SessionNew(c)
    \/ TokenCheck(c)
    \/ Login(c, LO)
    \/ TokenReturn(c)
    \/ HeaderUpdate(c)
    \/ SessionReturn(c)
    \/ Send(c, EA)
    \/ Invalidate(c)

\* One caller; the server answers anything.
Next == \E c \in SingleCaller : Step(c, Requests, LoginOutcomes, EntityAnswers)

Spec == Init /\ [][Next]_vars

----------------------------------------------------------------------------
(* The construction of a store.  The class body defines _initialize twice  *)
(* (lines 90-95 and 380-385); the name is bound to the last definition.    *)

\* The store before its constructor has called _initialize.
InitNew ==
    /\ _api_token = None
    /\ _session = None
    /\ headers = [s \in SessionObjs |-> None]
    /\ issued = 0
    /\ pc = [c \in Callers |-> IF c \in SingleCaller THEN "new" ELSE "idle"]
    /\ attempt = [c \in Callers |-> 1]
    /\ req = [c \in Callers |-> NoRequest]
    /\ sess = [c \in Callers |-> None]
    /\ tok = [c \in Callers |-> None]
    /\ log = [c \in Callers |-> <<>>]
    /\ result = [c \in Callers |-> NoResult]
    /\ ndispatch = [c \in Callers |-> 0]
    /\ entry = [c \in Callers |-> Fields(None, None, None)]
    /\ history = [logins |-> 0, unauthorized |-> FALSE]
    /\ arg = None
    /\ ret = None
    /\ CollectorInit

\* _initialize bound to the first definition, lines 90-95: the constructor
\* runs self.get(VERSION_1 + USERS), a _request of its own.
InitializeFirstDefinition(c) ==
    /\ pc[c] = "new"
    /\ req' = [req EXCEPT ![c] = get("/users")]
    /\ entry' = [entry EXCEPT ![c] = StoreFields]
    /\ Goto(c, "session_check")
    /\ UNCHANGED <<_api_token, _session, headers, issued, attempt, sess, tok,
                   log, result, ndispatch, history, pure, collectorVars>>

\* _initialize as the class has it, lines 380-385: a docstring and nothing
\* else; the constructor returns and the store can be used.
_initialize(c) ==
    /\ pc[c] = "new"
    /\ Goto(c, "idle")
    /\ UNCHANGED <<_api_token, _session, headers, issued, attempt, req, sess,
                   tok, log, result, ndispatch, entry, history, pure, collectorVars>>

NextNew ==
    \E c \in SingleCaller :
        \/ _initialize(c)
        \/ Step(c, Requests, LoginOutcomes, EntityAnswers)

SpecNew == InitNew /\ [][NextNew]_vars

----------------------------------------------------------------------------
(* The translator on its own: _handle_response applied to one response.    *)

MaxItems == 2    \* words in a response body

Statuses == {199, 200, 201, 204, 299, 300, 400, 401, 403, 404, 409, 418, 422,
             500, 503}

\* The words a body is made of: the markers the translator looks for, and
\* another word.
Vocabulary ==
    { "DoesNotExistException", "StackComponentExistsError", "StackExistsError",
      "EntityExistsError", "no such stack" }

Words == UNION { [1..n -> Vocabulary] : n \in 0..MaxItems }

TranslatorBodies ==
    { Body(f[1], f[2], w, None) :
        f \in { <<"dict", TRUE>>, <<"dict", FALSE>>, <<"other", FALSE>>,
                <<"raw", FALSE>> },
        w \in Words }

TranslatorInputs ==
    [status : Statuses, body : TranslatorBodies, url : {get("/stacks").url}]

InitTranslate == StoreInit /\ arg \in TranslatorInputs /\ ret = NoResult

\* self._handle_response(response)
Translate ==
    /\ ret = NoResult
    /\ ret' = HandleResponse(arg)
    /\ UNCHANGED <<arg, storeVars, collectorVars>>

NextTranslate == Translate

SpecTranslate == InitTranslate /\ [][NextTranslate]_vars

----------------------------------------------------------------------------
(* validate_url.  An address is a sequence of pieces of text: "http" and   *)
(* "s" are runs of characters of the class [a-z0-9], ":" and "/" are       *)
(* single characters.                                                      *)

MaxUrlLen == 7    \* pieces in an address

UrlPieces == {"http", "s", ":", "/"}

Urls == UNION { [1..n -> UrlPieces] : n \in 0..MaxUrlLen }

\* rstrip with a single "/" removed.
RStripOne(url) ==
    IF url # <<>> /\ url[Len(url)] = "/"
    THEN SubSeq(url, 1, Len(url) - 1)
    ELSE url

\* rstrip left out.
NoStrip(url) == url

\* line 140: url.rstrip("/")
RECURSIVE RStrip(_)
RStrip(url) ==
    IF url # <<>> /\ url[Len(url)] = "/"
    THEN RStrip(SubSeq(url, 1, Len(url) - 1))
    ELSE url

\* The characters of the class [a-z0-9]
InSchemeClass(piece) == piece \in {"http", "s"}

\* The length of the longest match of [a-z0-9]* at the start of url
RECURSIVE SchemeRun(_)
SchemeRun(url) ==
    IF url # <<>> /\ InSchemeClass(Head(url))
    THEN 1 + SchemeRun(Tail(url))
    ELSE 0

\* line 141: re.search("^([a-z0-9]+://)", url), and scheme.group() of a match
Scheme(url) ==
    LET n == SchemeRun(url)
    IN  IF /\ n >= 1
           /\ Len(url) >= n + 3
           /\ SubSeq(url, n + 1, n + 3) = <<":", "/", "/">>
        THEN Join(SubSeq(url, 1, n), "") \o "://"
        ELSE None

UrlReturned(url) == [kind |-> "ok", url |-> url]
UrlRaised(kind) == [kind |-> kind, url |-> <<>>]
NotValidated == [kind |-> "none", url |-> <<>>]

validate_url(url) ==
    LET stripped == RStrip(url)
        scheme == Scheme(stripped)
    IN  IF scheme = None \/ scheme \notin {"https://", "http://"}
        THEN UrlRaised("ValueError")
        ELSE UrlReturned(stripped)

InitUrl == StoreInit /\ arg \in Urls /\ ret = NotValidated

\* RestZenStore.validate_url(url)
ValidateUrl ==
    /\ ret = NotValidated
    /\ ret' = validate_url(arg)
    /\ UNCHANGED <<arg, storeVars, collectorVars>>

NextUrl == ValidateUrl

SpecUrl == InitUrl /\ [][NextUrl]_vars

\* validate_url applied to an address, and then to what it returned; ret is
\* the sequence of the results.
InitUrlTwice == StoreInit /\ arg \in Urls /\ ret = <<>>

\* RestZenStore.validate_url(url)
ValidateFirst ==
    /\ ret = <<>>
    /\ ret' = <<validate_url(arg)>>
    /\ UNCHANGED <<arg, storeVars, collectorVars>>

\* RestZenStore.validate_url(RestZenStore.validate_url(url))
ValidateAgain ==
    /\ Len(ret) = 1
    /\ ret[1].kind = "ok"
    /\ ret' = Append(ret, validate_url(ret[1].url))
    /\ UNCHANGED <<arg, storeVars, collectorVars>>

NextUrlTwice == ValidateFirst \/ ValidateAgain

SpecUrlTwice == InitUrlTwice /\ [][NextUrlTwice]_vars

\* Two callers on one store instance; the server accepts every login.
NextConc ==
    \E c \in Callers : Step(c, RequestsConc, LoginOutcomesAccept, EntityAnswersConc)

SpecConc == Init /\ [][NextConc]_vars

----------------------------------------------------------------------------
(* The server's error responses (zen_server/utils.py) and what the client  *)
(* makes of them.  A server-side error is the name of its class and its    *)
(* arguments, which are message texts.                                     *)

ServerErrorKinds ==
    { "StackComponentExistsError", "StackExistsError", "EntityExistsError" }

ServerErrors == [kind : ServerErrorKinds, args : Words]

\* utils.py, line 44: [type(error).__name__] + [str(a) for a in error.args]
error_detail(error) == <<error.kind>> \o error.args

HTTPException(status_code, detail) ==
    [status_code |-> status_code, detail |-> detail]

\* utils.py, line 68
conflict(error) == HTTPException(409, error_detail(error))

\* The response the client gets for an HTTPException: its status code and
\* the body {"detail": detail} (ErrorModel, lines 26-30).
ResponseOf(exc) ==
    [status |-> exc.status_code, body |-> Detail(exc.detail),
     url |-> get("/stacks").url]

InitConflict == StoreInit /\ arg \in ServerErrors /\ ret = NoResult

\* The server answers with conflict(arg); the client translates the response.
TranslateConflict ==
    /\ ret = NoResult
    /\ ret' = HandleResponse(ResponseOf(conflict(arg)))
    /\ UNCHANGED <<arg, storeVars, collectorVars>>

NextConflict == TranslateConflict

SpecConflict == InitConflict /\ [][NextConflict]_vars

\* The errors the server answers with a 404: the one the client knows by
\* name, and another one.
NotFoundErrorKinds == { "DoesNotExistException", "KeyError" }

NotFoundErrors == [kind : NotFoundErrorKinds, args : Words]

\* utils.py, line 56
not_found(error) == HTTPException(404, error_detail(error))

InitNotFound == StoreInit /\ arg \in NotFoundErrors /\ ret = NoResult

\* The server answers with not_found(arg); the client translates the response.
TranslateNotFound ==
    /\ ret = NoResult
    /\ ret' = HandleResponse(ResponseOf(not_found(arg)))
    /\ UNCHANGED <<arg, storeVars, collectorVars>>

NextNotFound == TranslateNotFound

SpecNotFound == InitNotFound /\ [][NextNotFound]_vars

----------------------------------------------------------------------------
(* FileLogCollector (log_collector/file_log_collector.py).  The collector   *)
(* keeps one handler and one file object; the logger of a step is the      *)
(* logger of that name.                                                    *)

CollectorCall(op, step, handler, file, raised) ==
    [op |-> op, step |-> step, handler |-> handler, file |-> file,
     raised |-> raised]

IsAdd(call) == call.op = "add"

\* line 38: self.get_logger(step_name)
get_logger(step_name) == step_name

\* remove_custom_handler with the file left open (line 43 left out).
RemoveLeavesFileOpen(step_name) ==
    /\ Len(calls) < MaxCollectorCalls
    /\ loggers' = [loggers EXCEPT
                     ![get_logger(step_name)] = @ \ {_stream_handler}]
    /\ calls' = Append(calls,
                       CollectorCall("remove", step_name, _stream_handler,
                                     _file_obj, None))
    /\ UNCHANGED <<_stream_handler, _file_obj, files, storeVars, pure>>

\* lines 32-38: open the step's log file, make a StreamHandler on it, add
\* the handler to the step's logger
add_custom_handler(step_name) ==
    /\ Len(calls) < MaxCollectorCalls
    /\ LET n == Len(SelectSeq(calls, IsAdd)) + 1
       IN  /\ _file_obj' = FileOf(n)
           /\ files' = [files EXCEPT ![FileOf(n)] = "open"]
           /\ _stream_handler' = HandlerOf(n)
           /\ loggers' = [loggers EXCEPT
                            ![get_logger(step_name)] = @ \cup {HandlerOf(n)}]
           /\ calls' = Append(calls,
                              CollectorCall("add", step_name, HandlerOf(n),
                                            FileOf(n), None))
    /\ UNCHANGED <<storeVars, pure>>

\* lines 40-43: remove the collector's handler from the step's logger
\* (removeHandler ignores a handler the logger does not have), close the
\* collector's file (closing a closed file does nothing; None has no close)
remove_custom_handler(step_name) ==
    /\ Len(calls) < MaxCollectorCalls
    /\ loggers' = [loggers EXCEPT
                     ![get_logger(step_name)] = @ \ {_stream_handler}]
    /\ files' = IF _file_obj = None THEN files
                ELSE [files EXCEPT ![_file_obj] = "closed"]
    /\ calls' = Append(calls,
                       CollectorCall("remove", step_name, _stream_handler,
                                     _file_obj,
                                     IF _file_obj = None THEN "AttributeError"
                                     ELSE None))
    /\ UNCHANGED <<_stream_handler, _file_obj, storeVars, pure>>

NextCollector ==
    \E step_name \in Steps :
        \/ add_custom_handler(step_name)
        \/ remove_custom_handler(step_name)

SpecCollector == Init /\ [][NextCollector]_vars

----------------------------------------------------------------------------
(* The resource clients of RestZenStore (from line 350 on).  The body of   *)
(* each of these methods is its docstring and nothing else: a call sends   *)
(* no request and returns None.                                            *)

MaxCalls == 3    \* calls of resource-client methods in a row

StackNames == {"alpha", "beta"}
Flags == {"True", "False"}
StackModels == [name : StackNames, is_shared : Flags]
StackIds == {"id1", "id2"}

\* The stacks the caller registers, the id it asks for, and its filters
\* (None: the filter is not supplied).
ClientInputs ==
    [first : StackModels, second : StackModels, stack_id : StackIds,
     name : StackNames \cup {None}, is_shared : Flags \cup {None}]

\* What a method returns whose body is only a docstring: None.
DocstringOnly == Returned(NoBody)

\* lines 400-416
_register_stack(stack) == DocstringOnly

\* lines 387-398
_get_stack(stack_id) == DocstringOnly

\* lines 435-443
_delete_stack(stack_id) == DocstringOnly

\* lines 361-378
_list_stacks(name, is_shared) == DocstringOnly

\* lines 449-471
_list_stack_components(name, is_shared) == DocstringOnly

Called(op, value) == [op |-> op, value |-> value]

IsRegister(call) == call.op = "register"

\* The stack the next _register_stack call is given.
NextStack ==
    IF SelectSeq(ret, IsRegister) = <<>> THEN arg.first ELSE arg.second

InitClient == StoreInit /\ arg \in ClientInputs /\ ret = <<>>

RegisterStack ==
    /\ Len(ret) < MaxCalls
    /\ Len(SelectSeq(ret, IsRegister)) < 2
    /\ ret' = Append(ret, Called("register", _register_stack(NextStack)))
    /\ UNCHANGED <<arg, storeVars, collectorVars>>

GetStack ==
    /\ Len(ret) < MaxCalls
    /\ ret' = Append(ret, Called("get", _get_stack(arg.stack_id)))
    /\ UNCHANGED <<arg, storeVars, collectorVars>>

DeleteStack ==
    /\ Len(ret) < MaxCalls
    /\ ret' = Append(ret, Called("delete", _delete_stack(arg.stack_id)))
    /\ UNCHANGED <<arg, storeVars, collectorVars>>

ListStacks ==
    /\ Len(ret) < MaxCalls
    /\ ret' = Append(ret, Called("list_stacks",
                                  _list_stacks(arg.name, arg.is_shared)))
    /\ UNCHANGED <<arg, storeVars, collectorVars>>

ListStackComponents ==
    /\ Len(ret) < MaxCalls
    /\ ret' = Append(ret, Called("list_stack_components",
                                  _list_stack_components(arg.name, arg.is_shared)))
    /\ UNCHANGED <<arg, storeVars, collectorVars>>

NextClient ==
    \/ RegisterStack
    \/ GetStack
    \/ DeleteStack
    \/ ListStacks
    \/ ListStackComponents

SpecClient == InitClient /\ [][NextClient]_vars

----------------------------------------------------------------------------
(* What the properties speak about.                                        *)

IsEntityCall(e) == e.ev = "entity"
IsLoginCall(e) == e.ev = "login"

\* The entity requests, and the login requests, of caller c's running _request.
EntityCalls(c) == SelectSeq(log[c], IsEntityCall)
LoginCalls(c) == SelectSeq(log[c], IsLoginCall)

LastCall(c) == log[c][Len(log[c])]

\* What the translator makes of the answer to caller c's i-th entity request.
Translated(c, i) == Handled(EntityCalls(c)[i].answer, EntityCalls(c)[i].req.url)

\* The store was Authenticated when caller c's running _request began.
AuthenticatedAtEntry(c) ==
    /\ entry[c].token # None
    /\ entry[c].session # None
    /\ entry[c].header = "Bearer " \o entry[c].token

Answered401(e) == ~e.answer.timeout /\ e.answer.status = 401

Answered2xxWellFormed(e) ==
    /\ ~e.answer.timeout
    /\ e.answer.status >= 200 /\ e.answer.status < 300
    /\ e.answer.body.fmt # "raw"

----------------------------------------------------------------------------
\* C1: on an Authenticated store, a dispatch whose first entity request is
\* answered with 401 and whose re-issued request is answered with 401 again
\* has sent exactly two entity requests and has failed with
\* AuthorizationException.
C1_TwoAttemptsThenAuthorizationError ==
    \A c \in SingleCaller :
        ( /\ AuthenticatedAtEntry(c)
          /\ Len(EntityCalls(c)) >= 2
          /\ Answered401(EntityCalls(c)[1])
          /\ Answered401(EntityCalls(c)[2]) )
        => /\ Len(EntityCalls(c)) = 2
           /\ pc[c] = "done"
           /\ result[c].kind = "AuthorizationException"

C3_InvalidateDropsTokenAndSession ==
    \A c \in SingleCaller :
        ( /\ pc[c] = "session_check"
          /\ attempt[c] = 2
          /\ IsEntityCall(LastCall(c)) )
        => _api_token = None /\ _session = None

\* C4: in a dispatch whose first entity request is answered with 401, a login
\* request is issued between the first entity request and the re-issued one,
\* and the re-issued request carries the token that login returned, not the
\* rejected one.
C4_RetryCarriesFreshToken ==
    \A c \in SingleCaller :
        ( /\ Len(EntityCalls(c)) >= 2
          /\ Answered401(EntityCalls(c)[1]) )
        => \E i, j, k \in DOMAIN log[c] :
            /\ i < j /\ j < k
            /\ log[c][i] = EntityCalls(c)[1]
            /\ IsLoginCall(log[c][j])
            /\ log[c][k] = EntityCalls(c)[2]
            /\ log[c][k].auth = "Bearer " \o log[c][j].answer.body.token
            /\ log[c][k].auth # log[c][i].auth

\* C5: after a dispatch has surfaced AuthorizationException (401 on the first
\* and on the re-issued request), the store holds no cached token and no
\* cached session.
C5_AuthorizationFailureLeavesUnauthenticated ==
    \A c \in SingleCaller :
        ( /\ pc[c] = "done"
          /\ result[c].kind = "AuthorizationException"
          /\ Len(EntityCalls(c)) = 2 )
        => _api_token = None /\ _session = None

\* C6: once the re-issued (second) entity request of a dispatch has been
\* answered, the dispatch is over: no further call follows it, and if the
\* translator makes an error of that answer, the dispatch has failed with
\* exactly that error.
C6_SecondFailurePropagatesUnchanged ==
    \A c \in SingleCaller :
        Len(EntityCalls(c)) >= 2
        => /\ Len(EntityCalls(c)) = 2
           /\ LastCall(c) = EntityCalls(c)[2]
           /\ pc[c] = "done"
           /\ IsError(Translated(c, 2)) => result[c] = Translated(c, 2)

C6_Witness ==
    /\ pc[1] = "done"
    /\ Len(EntityCalls(1)) = 2
    /\ EntityCalls(1)[2].answer.status = 404
    /\ result[1].kind = "KeyError"

\* C7: on an Authenticated store, when the translator makes an error other
\* than AuthorizationException of the answer to the first entity request, the
\* dispatch is over after that one request, has failed with exactly that
\* error, and has left the cached token and session as they were.
C7_OtherErrorsNotRetried ==
    \A c \in SingleCaller :
        ( /\ AuthenticatedAtEntry(c)
          /\ Len(EntityCalls(c)) >= 1
          /\ IsError(Translated(c, 1))
          /\ Translated(c, 1).kind # "AuthorizationException" )
        => /\ Len(log[c]) = 1
           /\ pc[c] = "done"
           /\ attempt[c] = 1
           /\ result[c] = Translated(c, 1)
           /\ StoreFields = entry[c]

C7_Witness ==
    /\ AuthenticatedAtEntry(1)
    /\ pc[1] = "done"
    /\ Len(log[1]) = 1
    /\ EntityCalls(1)[1].answer.status = 409
    /\ result[1].kind = "StackExistsError"
    /\ _session # None

\* C8: when the login endpoint rejects the credentials, the dispatch that
\* needed the session fails with AuthenticationError, which is not the
\* AuthorizationException the dispatcher retries.
C8_LoginRejectionIsAuthenticationError ==
    \A c \in SingleCaller :
        ( /\ pc[c] = "done"
          /\ Len(log[c]) >= 1
          /\ IsLoginCall(LastCall(c))
          /\ LastCall(c).answer = LoginRejected )
        => /\ result[c].kind = "AuthenticationError"
           /\ result[c].kind # "AuthorizationException"

\* C9: between the steps of a single caller's dispatches, a cached session
\* exists only together with a cached token and carries the header
\* "Bearer " + token; after a failed login no session is cached.
C9_SessionOnlyWithTokenAndHeader ==
    \A c \in SingleCaller :
        pc[c] \in {"idle", "done"}
        => /\ _session # None
              => /\ _api_token # None
                 /\ headers[_session] = "Bearer " \o _api_token
           /\ ( /\ Len(log[c]) >= 1
                /\ IsLoginCall(LastCall(c))
                /\ IsError(result[c]) )
              => _session = None /\ _api_token = None

\* C10: with two callers on one store and a server that accepts every login,
\* every dispatch ends with a decoded payload or with an error the translator
\* or the transport produces; none ends with the AttributeError of a session
\* that another caller has reset to None.
TaxonomyKinds ==
    { "ok", "AuthorizationException", "DoesNotExistException", "KeyError",
      "StackComponentExistsError", "StackExistsError", "EntityExistsError",
      "ValueError", "RuntimeError", "Timeout" }

C10_ConcurrentDispatchEndsInTaxonomy ==
    \A c \in Callers :
        pc[c] = "done" => result[c].kind \in TaxonomyKinds

\* C11: with two callers on one store and a server that accepts every login,
\* every entity request that has been sent carried a bearer Authorization
\* header.
C11_ConcurrentRequestsCarryBearer ==
    \A c \in Callers :
        \A i \in DOMAIN log[c] :
            IsEntityCall(log[c][i]) => log[c][i].auth # None

----------------------------------------------------------------------------
(* The translator's claims, on a response arg that has been translated.    *)

WasTranslated == ret # NoResult

\* C12: a response with a status in 200..299 and a parsable body is returned
\* decoded, with no error; one with an unparsable body fails with ValueError
\* (the malformed-response error) carrying the raw response text.
C12_SuccessStatusDecodesOrMalformed ==
    ( /\ WasTranslated
      /\ arg.status >= 200 /\ arg.status <= 299 )
    => IF arg.body.fmt # "raw"
       THEN ret = Returned(arg.body)
       ELSE /\ ret.kind = "ValueError"
            /\ \E i \in DOMAIN ret.args : ret.args[i] = Text(arg.body)

C12_Witness ==
    /\ WasTranslated
    /\ arg.status = 204
    /\ arg.body.fmt = "raw"
    /\ arg.body.items # <<>>
    /\ ret.kind = "ValueError"

\* C13: the translator fails with AuthorizationException if and only if the
\* status is 401, whatever the body.
C13_AuthorizationErrorIffStatus401 ==
    WasTranslated
    => (ret.kind = "AuthorizationException" <=> arg.status = 401)

\* What the typed errors are said to carry: the body's detail list when the
\* body has one, the raw response text otherwise.
DetailOrText(body) ==
    IF body.fmt = "dict" /\ body.hasDetail THEN body.items ELSE <<Text(body)>>

\* C14: a 404 response fails with DoesNotExistException, with the joined
\* detail list as its message, exactly when its text contains
\* "DoesNotExistException"; every other 404 response fails with KeyError (the
\* generic not-found error) carrying the detail list or the raw text.
C14_NotFoundDisambiguation ==
    ( WasTranslated /\ arg.status = 404 )
    => IF InText("DoesNotExistException", arg.body)
       THEN /\ ret.kind = "DoesNotExistException"
            /\ ret.args = <<Join(DetailOrText(arg.body), ": ")>>
       ELSE /\ ret.kind = "KeyError"
            /\ ret.args = DetailOrText(arg.body)

\* C15: a 409 response fails with the error kind of the first marker its text
\* contains, in the order StackComponentExistsError, StackExistsError,
\* EntityExistsError, and with ValueError (the generic conflict error) when
\* it contains none.
C15_ConflictMarkerPrecedence ==
    ( WasTranslated /\ arg.status = 409 )
    => ret.kind =
         IF InText("StackComponentExistsError", arg.body)
         THEN "StackComponentExistsError"
         ELSE IF InText("StackExistsError", arg.body) THEN "StackExistsError"
         ELSE IF InText("EntityExistsError", arg.body) THEN "EntityExistsError"
         ELSE "ValueError"

\* The status family of a response.
Family(response) ==
    LET status == response.status
        body == response.body
    IN  CASE status >= 200 /\ status <= 299 ->
                IF body.fmt = "raw" THEN "malformed" ELSE "success"
          [] status = 401 -> "authorization"
          [] status = 404 ->
                IF InText("DoesNotExistException", body)
                THEN "does not exist" ELSE "not found"
          [] status = 409 ->
                IF \/ InText("StackComponentExistsError", body)
                   \/ InText("StackExistsError", body)
                   \/ InText("EntityExistsError", body)
                THEN "exists" ELSE "conflict"
          [] status = 422 -> "validation"
          [] status = 500 -> "server fault"
          [] OTHER -> "unexpected status"

GenericFamilies ==
    { "not found", "conflict", "validation", "server fault", "malformed",
      "unexpected status" }

\* C16: the error kind identifies the status family: no response of another
\* family among generic 404, generic 409, 422, 500, unparsable 2xx and other
\* statuses is translated to the error kind of the translated response.
C16_ErrorKindIdentifiesFamily ==
    ( WasTranslated /\ Family(arg) \in GenericFamilies )
    => \A r \in TranslatorInputs :
         ( Family(r) \in GenericFamilies /\ Family(r) # Family(arg) )
         => HandleResponse(r).kind # ret.kind

\* C17: status 422 fails with RuntimeError (the validation error) carrying the
\* detail list or the raw text, status 500 with KeyError (the server-fault
\* error) carrying the raw text, and every status outside 200..299, 401, 404,
\* 409, 422 and 500 with RuntimeError carrying the status and the raw text.
C17_ValidationFaultAndUnexpected ==
    WasTranslated
    => /\ arg.status = 422
          => ret.kind = "RuntimeError" /\ ret.args = DetailOrText(arg.body)
       /\ arg.status = 500
          => ret.kind = "KeyError" /\ ret.args = <<Text(arg.body)>>
       /\ Family(arg) = "unexpected status"
          => /\ ret.kind = "RuntimeError"
             /\ ret.code = arg.status
             /\ \E i \in DOMAIN ret.args : ret.args[i] = Text(arg.body)

\* C18: a 404, 409 or 422 response never fails with a parse error: its typed
\* error carries the detail list when the body has one and the raw response
\* text otherwise, also when the body is not parsable.
C18_DetailOrRawTextNeverParseError ==
    ( WasTranslated /\ arg.status \in {404, 409, 422} )
    => /\ ret.kind \notin {"JSONDecodeError", "AttributeError"}
       /\ IF ret.kind = "DoesNotExistException"
          THEN ret.args = <<Join(DetailOrText(arg.body), ": ")>>
          ELSE ret.args = DetailOrText(arg.body)

----------------------------------------------------------------------------
(* validate_url's claims, on an address arg that has been validated.       *)

WasValidated == ret # NotValidated

\* The address begins with the given pieces.
BeginsWith(url, prefix) ==
    Len(url) >= Len(prefix) /\ SubSeq(url, 1, Len(prefix)) = prefix

HttpPrefix == <<"http", ":", "/", "/">>
HttpsPrefix == <<"http", "s", ":", "/", "/">>

\* Something else than "/" follows the first n pieces.
HasHostAfter(url, n) == \E i \in DOMAIN url : i > n /\ url[i] # "/"

\* C19 as stated: an address is accepted if and only if it begins with
\* "http://" or "https://".
C19_AcceptsIffHttpPrefix ==
    WasValidated
    => ( ret.kind = "ok"
         <=> BeginsWith(arg, HttpPrefix) \/ BeginsWith(arg, HttpsPrefix) )

\* C19, amended: an address is accepted if and only if it begins with
\* "http://" or "https://" and something else than "/" follows that scheme;
\* every other address is rejected with ValueError.
C19_AcceptsIffHttpPrefixAndHost ==
    WasValidated
    => /\ ret.kind = "ok"
          <=> \/ BeginsWith(arg, HttpPrefix) /\ HasHostAfter(arg, Len(HttpPrefix))
              \/ BeginsWith(arg, HttpsPrefix) /\ HasHostAfter(arg, Len(HttpsPrefix))
       /\ ret.kind # "ok" => ret.kind = "ValueError"

C19_Witness ==
    /\ WasValidated
    /\ arg = HttpPrefix \o <<"/">>
    /\ ret.kind = "ValueError"

\* C20 as stated: an accepted address is returned with one trailing "/"
\* removed when it has one, and unchanged otherwise.
C20_StripsOneTrailingSlash ==
    ( WasValidated /\ ret.kind = "ok" )
    => ret.url = IF arg[Len(arg)] = "/" THEN SubSeq(arg, 1, Len(arg) - 1)
                 ELSE arg

\* C20, amended: an accepted address is returned with all its trailing "/"
\* removed: the result does not end with "/", and the address is the result
\* followed by nothing but "/".
C20_StripsAllTrailingSlashes ==
    ( WasValidated /\ ret.kind = "ok" )
    => /\ ret.url # <<>>
       /\ ret.url[Len(ret.url)] # "/"
       /\ BeginsWith(arg, ret.url)
       /\ \A i \in DOMAIN arg : i > Len(ret.url) => arg[i] = "/"

C20_Witness ==
    /\ WasValidated
    /\ arg = HttpPrefix \o <<"s", "/", "/">>
    /\ ret = UrlReturned(HttpPrefix \o <<"s">>)

----------------------------------------------------------------------------
(* The dispatcher's and the session's further claims.                      *)

\* C21: the entity request re-issued after a 401 has the method, the URL and
\* the body of the first attempt, which are those _request was called with;
\* on every attempt a GET or DELETE carries no body and a POST or PUT carries
\* the serialized entity.
C21_RetrySendsSameRequest ==
    \A c \in SingleCaller :
        /\ \A i \in DOMAIN EntityCalls(c) :
              LET q == EntityCalls(c)[i].req
              IN  /\ q = req[c]
                  /\ q.method \in {"GET", "DELETE"} => q.data = NoData
                  /\ q.method \in {"POST", "PUT"} => q.data = "stack.json"
        /\ Len(EntityCalls(c)) >= 2
           => EntityCalls(c)[2].req = EntityCalls(c)[1].req

C21_Witness ==
    /\ Len(EntityCalls(1)) = 2
    /\ Answered401(EntityCalls(1)[1])
    /\ EntityCalls(1)[1].req = post("/stacks", "stack.json")
    /\ EntityCalls(1)[2].req = post("/stacks", "stack.json")

\* Every kind of outcome the translator has, for any response.
TranslatorKinds == { HandleResponse(r).kind : r \in TranslatorInputs }

\* C22: a call of a dispatch that times out is the dispatch's last call: the
\* dispatch is over and has failed with the transport's Timeout, which is no
\* outcome of the translator; the timeout has not invalidated the session,
\* the session still has the header the request was sent with, and a dispatch
\* whose only call timed out has left the cached token, and on an
\* Authenticated store the session and its header too, as they were.
C22_TimeoutSurfacesWithoutRetry ==
    \A c \in SingleCaller :
        \A i \in DOMAIN log[c] :
            log[c][i].answer.timeout
            => /\ i = Len(log[c])
               /\ pc[c] = "done"
               /\ result[c].kind = "Timeout"
               /\ result[c].kind \notin TranslatorKinds
               /\ _session # None
               /\ IsEntityCall(log[c][i]) => headers[_session] = log[c][i].auth
               /\ i = 1 => _api_token = entry[c].token
               /\ (i = 1 /\ AuthenticatedAtEntry(c)) => StoreFields = entry[c]

C22_Witness ==
    /\ AuthenticatedAtEntry(1)
    /\ pc[1] = "done"
    /\ Len(log[1]) = 1
    /\ IsEntityCall(log[1][1])
    /\ log[1][1].answer = TimedOut
    /\ result[1].kind = "Timeout"
    /\ StoreFields = entry[1]

IsInvalidation == \E c \in Callers : pc[c] = "invalidate" /\ pc'[c] = "session_check"

\* C24: a dispatch on an Authenticated store whose first entity request is
\* not answered with 401 is over after that one request and has left the
\* cached token, the cached session and its header as they were; and a step
\* that resets the cached session or the cached token to None is the
\* invalidation.
C24_ResetOnlyByInvalidation ==
    /\ [](\A c \in SingleCaller :
            ( /\ AuthenticatedAtEntry(c)
              /\ Len(EntityCalls(c)) >= 1
              /\ ~Answered401(EntityCalls(c)[1]) )
            => /\ Len(log[c]) = 1
               /\ pc[c] = "done"
               /\ StoreFields = entry[c])
    /\ [][ ( \/ _session # None /\ _session' = None
             \/ _api_token # None /\ _api_token' = None )
           => IsInvalidation ]_vars

C24_Witness ==
    /\ AuthenticatedAtEntry(1)
    /\ pc[1] = "done"
    /\ Len(log[1]) = 1
    /\ EntityCalls(1)[1].answer.status = 200
    /\ result[1].kind = "ok"
    /\ StoreFields = entry[1]

\* The store was Unauthenticated when caller c's running _request began.
UnauthenticatedAtEntry(c) == entry[c].token = None /\ entry[c].session = None

\* C28: as long as no call has been answered with 401, the dispatches of a
\* single caller have issued one login request in all: the first dispatch
\* issues it as its first call, before any entity request; every later
\* dispatch issues no login, sends its request with the cached session's
\* header and leaves the cached token and session as they were.
C28_OneLoginForAllDispatches ==
    \A c \in SingleCaller :
        ~history.unauthorized
        => /\ history.logins <= 1
           /\ ( /\ ndispatch[c] >= 1
                /\ pc[c] \notin {"session_check", "session_new", "token_check",
                                  "login"} )
              => history.logins = 1
           /\ (ndispatch[c] = 1 /\ Len(log[c]) >= 1) => IsLoginCall(log[c][1])
           /\ ndispatch[c] >= 2
              => /\ LoginCalls(c) = <<>>
                 /\ StoreFields = entry[c]
                 /\ \A i \in DOMAIN log[c] : log[c][i].auth = entry[c].header

C28_Witness ==
    /\ ~history.unauthorized
    /\ ndispatch[1] = 2
    /\ pc[1] = "done"
    /\ history.logins = 1
    /\ AuthenticatedAtEntry(1)
    /\ Len(EntityCalls(1)) = 1
    /\ result[1].kind = "ok"

\* C29: a dispatch on an Unauthenticated store whose login request is
\* rejected with 401 is over after that one login request: it has sent no
\* second login request and no entity request.
C29_RejectedLoginIsNotRetried ==
    \A c \in SingleCaller :
        ( /\ UnauthenticatedAtEntry(c)
          /\ Len(log[c]) >= 1
          /\ IsLoginCall(log[c][1])
          /\ log[c][1].answer = LoginRejected )
        => /\ pc[c] = "done"
           /\ Len(LoginCalls(c)) = 1
           /\ EntityCalls(c) = <<>>

----------------------------------------------------------------------------
(* The resource clients' claims, on the calls made so far (ret).           *)

\* An entity as a response body, and a list of entities by their names.
StackBody(stack) == Body("dict", FALSE, <<stack.name, stack.is_shared>>, None)
StackList(names) == Body("other", FALSE, names, None)

\* The stacks registered by the calls before the j-th, in order.
RegisteredBefore(j) ==
    SubSeq(<<arg.first, arg.second>>, 1,
           Len(SelectSeq(SubSeq(ret, 1, j - 1), IsRegister)))

\* stack passes every supplied filter.
Matches(stack) ==
    /\ arg.name = None \/ stack.name = arg.name
    /\ arg.is_shared = None \/ stack.is_shared = arg.is_shared

RECURSIVE MatchingNames(_)
MatchingNames(stacks) ==
    IF stacks = <<>> THEN <<>>
    ELSE (IF Matches(Head(stacks)) THEN <<Head(stacks).name>> ELSE <<>>)
         \o MatchingNames(Tail(stacks))

\* C25: when a stack E has been registered and the next call gets the stack
\* of the id the registration returned, the registration has returned an
\* entity and the get returns an entity with the name and the shared flag
\* of E.
C25_CreateThenGetReturnsEntity ==
    \A j \in DOMAIN ret :
        ( /\ j >= 2
          /\ ret[j - 1].op = "register"
          /\ ret[j].op = "get" )
        => /\ ret[j - 1].value.kind = "ok"
           /\ ret[j - 1].value.payload.fmt = "dict"
           /\ ret[j].value =
                Returned(StackBody(RegisteredBefore(j)[Len(RegisteredBefore(j))]))

\* C26: when a stack has been registered and deleted, the next delete of the
\* same id fails with the not-found error (KeyError or
\* DoesNotExistException).
C26_SecondDeleteFailsNotFound ==
    \A j \in DOMAIN ret :
        ( /\ j >= 3
          /\ ret[j - 2].op = "register"
          /\ ret[j - 1].op = "delete"
          /\ ret[j].op = "delete" )
        => ret[j].value.kind \in {"KeyError", "DoesNotExistException"}

\* C27: as long as nothing has been deleted, a list call returns exactly the
\* registered entities that pass every supplied filter (an absent filter
\* passes everything), and the list of components, of which none has been
\* registered, is empty.
C27_ListReturnsExactlyMatching ==
    \A j \in DOMAIN ret :
        (\A i \in 1..(j - 1) : ret[i].op # "delete")
        => /\ ret[j].op = "list_stacks"
              => ret[j].value =
                   Returned(StackList(MatchingNames(RegisteredBefore(j))))
           /\ ret[j].op = "list_stack_components"
              => ret[j].value = Returned(StackList(<<>>))

----------------------------------------------------------------------------
\* C30: for a server-side error of kind StackComponentExistsError,
\* StackExistsError or EntityExistsError, with any message texts, the client
\* translates the response of conflict(error) into an error of the same kind.
C30_ConflictKindSurvivesTheWire ==
    ( /\ WasTranslated
      /\ arg.kind \in ServerErrorKinds )
    => ret.kind = arg.kind

\* C31: the client translates the response of not_found(error) into
\* DoesNotExistException if and only if the server-side error is a
\* DoesNotExistException, whatever its message texts, and into KeyError (the
\* generic not-found error) otherwise.
C31_NotFoundKindSurvivesTheWire ==
    ( /\ WasTranslated
      /\ arg.kind \in NotFoundErrorKinds )
    => ret.kind = IF arg.kind = "DoesNotExistException"
                  THEN "DoesNotExistException"
                  ELSE "KeyError"

----------------------------------------------------------------------------
(* FileLogCollector's claims, on the calls made so far.                    *)

\* The calls are add(s), remove(s) pairs, one after the other.
StrictlyAlternating ==
    /\ Len(calls) % 2 = 0
    /\ \A i \in DOMAIN calls :
          IF i % 2 = 1
          THEN calls[i].op = "add"
          ELSE calls[i].op = "remove" /\ calls[i].step = calls[i - 1].step

NothingAttached == \A s \in Steps : loggers[s] = {}
NothingOpen == \A f \in FileObjs : files[f] # "open"

\* C32: after add_custom_handler(s) / remove_custom_handler(s) pairs made one
\* after the other, no step logger has a handler the collector attached, no
\* file the collector opened is open, and no call has raised.
C32_AlternatingPairsLeaveNothing ==
    StrictlyAlternating
    => /\ NothingAttached
       /\ NothingOpen
       /\ \A i \in DOMAIN calls : calls[i].raised = None

C32_Witness ==
    /\ StrictlyAlternating
    /\ Len(calls) = 4
    /\ calls[1].step = "A"
    /\ calls[3].step = "B"
    /\ files[FileOf(1)] = "closed"
    /\ files[FileOf(2)] = "closed"

\* The first calls were add(A), add(B) for two steps A and B, then
\* remove(A).
AddedTwoThenRemovedFirst ==
    /\ Len(calls) >= 3
    /\ calls[1].op = "add"
    /\ calls[2].op = "add"
    /\ calls[2].step # calls[1].step
    /\ calls[3].op = "remove"
    /\ calls[3].step = calls[1].step

\* C33: after add(A), add(B), remove(A) the handler attached by add(A) is
\* off A's logger and the file opened by add(A) is closed, while B's handler
\* and file are as they were; after remove(B) as the fourth call nothing is
\* attached and nothing is open.
C33_RemoveActsOnItsOwnStep ==
    AddedTwoThenRemovedFirst
    => /\ calls[1].handler \notin loggers[calls[1].step]
       /\ files[calls[1].file] = "closed"
       /\ Len(calls) = 3
          => /\ calls[2].handler \in loggers[calls[2].step]
             /\ files[calls[2].file] = "open"
       /\ ( /\ Len(calls) = 4
            /\ calls[4].op = "remove"
            /\ calls[4].step = calls[2].step )
          => NothingAttached /\ NothingOpen

----------------------------------------------------------------------------
\* C34: an accepted address is returned without a "/" at its end, and
\* validate_url applied to the returned address accepts it and returns it
\* unchanged.
C34_ValidateUrlIdempotent ==
    /\ (Len(ret) >= 1 /\ ret[1].kind = "ok")
       => ret[1].url # <<>> /\ ret[1].url[Len(ret[1].url)] # "/"
    /\ Len(ret) = 2
       => /\ ret[2].kind = "ok"
          /\ ret[2] = ret[1]

C34_Witness ==
    /\ Len(ret) = 2
    /\ arg = HttpPrefix \o <<"s", "/", "/">>
    /\ ret[1] = UrlReturned(HttpPrefix \o <<"s">>)
    /\ ret[2] = ret[1]

====
